---- MODULE Spec2Model ----
(***************************************************************************)
(* HubSpot CMS client: the rate limiter (RateLimiter), the request         *)
(* executor (HubSpotClient.request) and the fetch-first update operations  *)
(* of HubSpotClient, modelled as a state machine.                          *)
(*                                                                         *)
(* Times are in milliseconds.  A header text is a sequence of one-character*)
(* strings, so that parseInt is a conversion and not the identity.         *)
(***************************************************************************)
EXTENDS Integers, Sequences, FiniteSets, TLC

VARIABLES
    rateLimiter,   \* the RateLimiter instance: dailyRemaining, burstRemaining, lastBurstReset
    now,           \* Date.now()
    lastCall,      \* the last RateLimiter method called directly and what it returned
    calls,         \* number of direct RateLimiter calls made so far
    runs,          \* the calls of client operations, by run
    remote,        \* the content object held by the remote service
    logger         \* the Logger: operationId and the operation records emitted

vars == <<rateLimiter, now, lastCall, calls, runs, remote, logger>>

(***************************************************************************)
(* Bounds of the model.                                                    *)
(***************************************************************************)
MaxNow == 20000          \* the clock stops advancing here
MaxCalls == 102          \* recordRequest calls explored when no header is seen
MaxObserved == 9         \* recordRequest calls explored when headers are seen
MaxHeaders == 2          \* updateFromHeaders calls explored
ClockSteps == {5000, 10000}
MaxAttempt == 5
MaxRequests == 3         \* further calls a caller makes after its first
BaseDelays == {1, 500, 1000, 2000, 4000}

(***************************************************************************)
(* RateLimiter: fields and constructor.                                    *)
(***************************************************************************)
dailyLimit == 500000
burstLimit == 100
burstWindowMs == 10000
\* safetyMargin = 0.1, kept as the fraction SafetyMarginNum / SafetyMarginDen
SafetyMarginNum == 1
SafetyMarginDen == 10

Max(a, b) == IF a >= b THEN a ELSE b

NewRateLimiter(t) ==
    [dailyRemaining |-> dailyLimit,
     burstRemaining |-> burstLimit,
     lastBurstReset |-> t]

\* Math.floor(limit * safetyMargin)
SafeThreshold(limit) == (limit * SafetyMarginNum) \div SafetyMarginDen

ResetBurstLate(rl, t) ==
    IF t - rl.lastBurstReset > burstWindowMs
    THEN [rl EXCEPT !.burstRemaining = burstLimit, !.lastBurstReset = t]
    ELSE rl

\* private resetBurstIfNeeded()
ResetBurstIfNeeded(rl, t) ==
    IF t - rl.lastBurstReset >= burstWindowMs
    THEN [rl EXCEPT !.burstRemaining = burstLimit, !.lastBurstReset = t]
    ELSE rl

WithinLimitsStrict(rl) ==
    /\ ~(rl.dailyRemaining < SafeThreshold(dailyLimit))
    /\ ~(rl.burstRemaining < SafeThreshold(burstLimit))

WithinBurstOnly(rl) == ~(rl.burstRemaining <= SafeThreshold(burstLimit))

\* the comparison of canMakeRequest, on the counters it reads after the reset
WithinLimits(rl) ==
    /\ ~(rl.dailyRemaining <= SafeThreshold(dailyLimit))
    /\ ~(rl.burstRemaining <= SafeThreshold(burstLimit))

\* canMakeRequest(): the limiter after the call and the value returned
canMakeRequest(rl, t) ==
    LET r == ResetBurstIfNeeded(rl, t)
    IN  [limiter |-> r, ok |-> WithinLimits(r)]

DecrementUnclamped(n) == n - 1

\* Math.max(0, counter - 1)
Decrement(n) == Max(0, n - 1)

\* recordRequest()
recordRequest(rl, t) ==
    LET r == ResetBurstIfNeeded(rl, t)
    IN  [r EXCEPT !.dailyRemaining = Decrement(r.dailyRemaining),
                  !.burstRemaining = Decrement(r.burstRemaining)]

\* getStatus(): it resets the burst window too
getStatus(rl, t) == ResetBurstIfNeeded(rl, t)

(***************************************************************************)
(* Response headers.  A header is absent (headers.get gives null) or has a *)
(* text; the empty text is falsy in `if (dailyRemaining)`.                 *)
(***************************************************************************)
NoHeader == [present |-> FALSE, text |-> <<>>]
Header(txt) == [present |-> TRUE, text |-> txt]

DigitValue(c) ==
    CASE c = "0" -> 0 [] c = "1" -> 1 [] c = "2" -> 2 [] c = "3" -> 3
      [] c = "4" -> 4 [] c = "5" -> 5 [] c = "6" -> 6 [] c = "7" -> 7
      [] c = "8" -> 8 [] c = "9" -> 9

\* value of a sequence of digit characters, most significant first
RECURSIVE DigitsValue(_)
DigitsValue(txt) ==
    IF txt = <<>> THEN 0
    ELSE 10 * DigitsValue(SubSeq(txt, 1, Len(txt) - 1)) + DigitValue(txt[Len(txt)])

\* parseInt(text, 10) of a text made of an optional sign and digits
ParseInt(txt) ==
    IF txt[1] = "-" THEN 0 - DigitsValue(Tail(txt)) ELSE DigitsValue(txt)

\* the test `if (header)`: not null and not the empty string
Truthy(h) == h.present /\ h.text # <<>>

ObserveTogether(rl, daily, burst) ==
    IF Truthy(daily) /\ Truthy(burst)
    THEN [rl EXCEPT !.dailyRemaining = ParseInt(daily.text),
                    !.burstRemaining = ParseInt(burst.text)]
    ELSE rl

\* updateFromHeaders(headers)
updateFromHeaders(rl, daily, burst) ==
    LET d == IF Truthy(daily) THEN ParseInt(daily.text) ELSE rl.dailyRemaining
        b == IF Truthy(burst) THEN ParseInt(burst.text) ELSE rl.burstRemaining
    IN  [rl EXCEPT !.dailyRemaining = d, !.burstRemaining = b]

\* remaining counts a response can report
DailyHeaders == {NoHeader, Header(<<"5","0","0","0","1">>), Header(<<"3">>)}
BurstHeaders == {NoHeader, Header(<<>>), Header(<<"1","1">>), Header(<<"1","5","0">>)}

(***************************************************************************)
(* Content objects.  A JavaScript object is a function from its own keys   *)
(* to values; a value is a string, undefined, or a layout tree.  Reading a *)
(* key the object does not have gives undefined.                           *)
(***************************************************************************)
Undefined == [kind |-> "undefined", str |-> "", tree |-> <<>>]
Str(s) == [kind |-> "string", str |-> s, tree |-> <<>>]
Tree(t) == [kind |-> "object", str |-> "", tree |-> t]

EmptyObject == [k \in {} |-> Undefined]

Get(obj, k) == IF k \in DOMAIN obj THEN obj[k] ELSE Undefined

\* { ...a, ...b }
Spread(a, b) ==
    [k \in DOMAIN a \cup DOMAIN b |-> IF k \in DOMAIN b THEN b[k] ELSE a[k]]

\* obj.k = v
Assign(obj, k, v) == Spread(obj, k :> v)

\* JSON.stringify followed by the receiver's JSON.parse: a key whose value is
\* undefined is dropped
JsonStringify(obj) ==
    [k \in {j \in DOMAIN obj : obj[j].kind # "undefined"} |-> obj[k]]

\* a widget; body, styles and params may be missing
NoMap == [present |-> FALSE, map |-> EmptyObject]
Map(m) == [present |-> TRUE, map |-> m]
NoBody == [present |-> FALSE, hasHtml |-> FALSE, html |-> ""]
HtmlBody(h) == [present |-> TRUE, hasHtml |-> TRUE, html |-> h]

NewWidgetRecord(id, name, type, body, params, styles) ==
    [id |-> id, name |-> name, type |-> type, body |-> body,
     params |-> params, styles |-> styles]

\* cells, rows and sections; `widgets`, `cells` or `rows` may be missing
Cell(ws) == [hasWidgets |-> TRUE, widgets |-> ws]
CellWithoutWidgets == [hasWidgets |-> FALSE, widgets |-> <<>>]
Row(cs) == [hasCells |-> TRUE, cells |-> cs]
Section(rs) == [hasRows |-> TRUE, rows |-> rs]
SectionWithoutRows == [hasRows |-> FALSE, rows |-> <<>>]

\* a location; the indices count from zero, as in the source
Location(s, r, c, w) ==
    [sectionName |-> s, rowIndex |-> r, columnIndex |-> c, widgetIndex |-> w]

\* array[i]: the element, when i is an index of the array
HasIndex(arr, i) == i >= 0 /\ i < Len(arr)
At(arr, i) == arr[i + 1]

\* page.layoutSections is an object (reading a key of undefined throws)
HasLayout(page) == Get(page, "layoutSections").kind = "object"
Layout(page) == Get(page, "layoutSections").tree

\* how far the navigation of a location gets in a page:
\* "throws", "section", "row", "cell" (the first missing level), "nowidgets"
\* (the cell has no widget list) or "ok"
Navigate(page, loc) ==
    IF ~HasLayout(page) THEN "throws"
    ELSE LET t == Layout(page) IN
    IF loc.sectionName \notin DOMAIN t \/ ~t[loc.sectionName].hasRows THEN "section"
    ELSE LET rows == t[loc.sectionName].rows IN
    IF ~HasIndex(rows, loc.rowIndex) \/ ~At(rows, loc.rowIndex).hasCells THEN "row"
    ELSE LET cells == At(rows, loc.rowIndex).cells IN
    IF ~HasIndex(cells, loc.columnIndex) THEN "cell"
    ELSE IF ~At(cells, loc.columnIndex).hasWidgets THEN "nowidgets"
    ELSE "ok"

\* the cell a location names, when Navigate reaches it
CellAt(page, loc) ==
    At(At(Layout(page)[loc.sectionName].rows, loc.rowIndex).cells, loc.columnIndex)

KeepAddressedSectionOnly(page, loc, cell) ==
    LET t == Layout(page)
        sec == t[loc.sectionName]
        row == At(sec.rows, loc.rowIndex)
        row2 == [row EXCEPT !.cells[loc.columnIndex + 1] = cell]
        sec2 == [sec EXCEPT !.rows[loc.rowIndex + 1] = row2]
    IN  Assign(page, "layoutSections", Tree(loc.sectionName :> sec2))

\* the page with the cell a location names replaced
WithCell(page, loc, cell) ==
    LET t == Layout(page)
        sec == t[loc.sectionName]
        row == At(sec.rows, loc.rowIndex)
        row2 == [row EXCEPT !.cells[loc.columnIndex + 1] = cell]
        sec2 == [sec EXCEPT !.rows[loc.rowIndex + 1] = row2]
    IN  Assign(page, "layoutSections", Tree([t EXCEPT ![loc.sectionName] = sec2]))

\* getWidgetAtLocation: found (and the widget) or null
getWidgetAtLocation(page, loc) ==
    IF Navigate(page, loc) = "ok" /\ HasIndex(CellAt(page, loc).widgets, loc.widgetIndex)
    THEN [found |-> TRUE, widget |-> At(CellAt(page, loc).widgets, loc.widgetIndex)]
    ELSE [found |-> FALSE,
          widget |-> NewWidgetRecord("", "", "", NoBody, NoMap, NoMap)]

\* setWidgetAtLocation: ok (and the page after the assignment) or false
setWidgetAtLocation(page, loc, widget) ==
    IF Navigate(page, loc) = "ok"
    THEN [ok |-> TRUE,
          page |-> LET c == CellAt(page, loc)
                   IN  WithCell(page, loc,
                           [c EXCEPT !.widgets[loc.widgetIndex + 1] = widget])]
    ELSE [ok |-> FALSE, page |-> page]

(***************************************************************************)
(* Structural validation.                                                  *)
(***************************************************************************)
RECURSIVE SumOver(_, _)
\* the sum of count(x) over the elements x of a sequence
SumOver(seq, i) ==
    IF i > Len(seq) THEN 0 ELSE seq[i] + SumOver(seq, i + 1)

CellWidgetCount(cell) == IF cell.hasWidgets THEN Len(cell.widgets) ELSE 0
RowWidgetCount(row) ==
    IF row.hasCells
    THEN SumOver([i \in 1..Len(row.cells) |-> CellWidgetCount(row.cells[i])], 1)
    ELSE 0
SectionWidgetCount(sec) ==
    IF sec.hasRows
    THEN SumOver([i \in 1..Len(sec.rows) |-> RowWidgetCount(sec.rows[i])], 1)
    ELSE 0

RECURSIVE TreeWidgetCount(_, _)
TreeWidgetCount(t, names) ==
    IF names = {} THEN 0
    ELSE LET n == CHOOSE x \in names : TRUE
         IN  SectionWidgetCount(t[n]) + TreeWidgetCount(t, names \ {n})

\* extractWidgetsFromPage: the section names and the number of widgets
extractWidgetsFromPage(page) ==
    IF ~HasLayout(page)
    THEN [layoutSections |-> {}, totalWidgets |-> 0]
    ELSE [layoutSections |-> DOMAIN Layout(page),
          totalWidgets |-> TreeWidgetCount(Layout(page), DOMAIN Layout(page))]

ValidateCountsOnly(beforePage, afterPage) ==
    LET b == extractWidgetsFromPage(beforePage)
        a == extractWidgetsFromPage(afterPage)
        errors ==
            IF Cardinality(b.layoutSections) # Cardinality(a.layoutSections)
            THEN {[kind |-> "section count changed", section |-> ""]} ELSE {}
    IN  [isValid |-> errors = {},
         beforeWidgetCount |-> b.totalWidgets,
         afterWidgetCount |-> a.totalWidgets,
         beforeSectionCount |-> Cardinality(b.layoutSections),
         afterSectionCount |-> Cardinality(a.layoutSections),
         warnings |-> {},
         errors |-> errors]

\* validatePageStructure(beforePage, afterPage)
validatePageStructure(beforePage, afterPage) ==
    LET b == extractWidgetsFromPage(beforePage)
        a == extractWidgetsFromPage(afterPage)
        countWarning ==
            IF b.totalWidgets # a.totalWidgets
            THEN {[kind |-> "widget count changed", section |-> ""]} ELSE {}
        countError ==
            IF Cardinality(b.layoutSections) # Cardinality(a.layoutSections)
            THEN {[kind |-> "section count changed", section |-> ""]} ELSE {}
        removed == {[kind |-> "section removed", section |-> n] :
                        n \in b.layoutSections \ a.layoutSections}
        added == {[kind |-> "section added", section |-> n] :
                        n \in a.layoutSections \ b.layoutSections}
        errors == countError \cup removed
    IN  [isValid |-> errors = {},
         beforeWidgetCount |-> b.totalWidgets,
         afterWidgetCount |-> a.totalWidgets,
         beforeSectionCount |-> Cardinality(b.layoutSections),
         afterSectionCount |-> Cardinality(a.layoutSections),
         warnings |-> countWarning \cup added,
         errors |-> errors]

(***************************************************************************)
(* The mutations of the update operations.                                 *)
(***************************************************************************)
NestedKeys == {"widgets", "widgetContainers", "layoutSections"}

\* the fields of `from` that the merge assigns again after the spread
Pinned(from, keys) == [k \in keys |-> Get(from, k)]

\* { ...beforeState, ...metadata, k: beforeState.k for the pinned keys }
MergeMetadata(beforeState, metadata, keys) ==
    Spread(Spread(beforeState, metadata), Pinned(beforeState, keys))

\* updateBlogPostMetadata, step 2
BlogPostMetadataMerge(beforeState, metadata) ==
    MergeMetadata(beforeState, metadata, {"postBody"} \cup NestedKeys)

\* updatePageMetadata, step 2
PageMetadataMerge(beforeState, metadata) ==
    MergeMetadata(beforeState, metadata, NestedKeys)

ContentOnly(beforeState, content) ==
    IF Get(content, "postSummary").kind # "undefined"
    THEN "postBody" :> Get(content, "postBody") @@ "postSummary" :> content["postSummary"]
    ELSE "postBody" :> Get(content, "postBody")

\* updateBlogPostContent, step 2
BlogPostContentMerge(beforeState, content) ==
    LET updatedPost == Spread(beforeState, "postBody" :> Get(content, "postBody"))
    IN  IF Get(content, "postSummary").kind # "undefined"
        THEN Assign(updatedPost, "postSummary", content["postSummary"])
        ELSE updatedPost

\* what a widget operation is given besides the location
NotGiven == [given |-> FALSE, value |-> ""]
Given(v) == [given |-> TRUE, value |-> v]

ReplacedWidget(widget, in) ==
    LET w1 == IF in.html.given
              THEN [widget EXCEPT !.body = [present |-> TRUE, hasHtml |-> TRUE,
                                            html |-> in.html.value]]
              ELSE widget
        w2 == IF in.styles.present THEN [w1 EXCEPT !.styles = in.styles] ELSE w1
    IN  IF in.params.present THEN [w2 EXCEPT !.params = in.params] ELSE w2

\* updateWidgetContent: the widget after the assignments of html, styles, params
UpdatedWidget(widget, in) ==
    LET w1 == IF in.html.given
              THEN [widget EXCEPT !.body = [present |-> TRUE, hasHtml |-> TRUE,
                                            html |-> in.html.value]]
              ELSE widget
        w2 == IF in.styles.present
              THEN [w1 EXCEPT !.styles = Map(Spread(w1.styles.map, in.styles.map))]
              ELSE w1
    IN  IF in.params.present
        THEN [w2 EXCEPT !.params = Map(Spread(w2.params.map, in.params.map))]
        ELSE w2

\* addWidget: the new widget; `params.html ? { html } : undefined`
CreatedWidget(in, t) ==
    NewWidgetRecord("widget-" \o ToString(t), in.widgetName, in.widgetType,
        IF in.html.given /\ in.html.value # "" THEN HtmlBody(in.html.value) ELSE NoBody,
        IF in.params.present THEN in.params ELSE Map(EmptyObject),
        IF in.styles.present THEN in.styles ELSE Map(EmptyObject))

PrependedWidget(page, in, t) ==
    LET nav == Navigate(page, in.location) IN
    IF nav = "throws" THEN [status |-> "ADD_WIDGET_FAILED", page |-> page, location |-> in.location]
    ELSE IF nav = "section" THEN [status |-> "SECTION_NOT_FOUND", page |-> page, location |-> in.location]
    ELSE IF nav = "row" THEN [status |-> "ROW_NOT_FOUND", page |-> page, location |-> in.location]
    ELSE IF nav = "cell" THEN [status |-> "CELL_NOT_FOUND", page |-> page, location |-> in.location]
    ELSE LET cell == CellAt(page, in.location)
             list == IF cell.hasWidgets THEN cell.widgets ELSE <<>>
             pushed == <<CreatedWidget(in, t)>> \o list
         IN  [status |-> "OK",
              page |-> WithCell(page, in.location, Cell(pushed)),
              location |-> [in.location EXCEPT !.widgetIndex = Len(pushed) - 1]]

\* addWidget, step 2: the error status, or the page with the widget pushed
\* on the cell's list and the location of the new widget
AddedWidget(page, in, t) ==
    LET nav == Navigate(page, in.location) IN
    IF nav = "throws" THEN [status |-> "ADD_WIDGET_FAILED", page |-> page, location |-> in.location]
    ELSE IF nav = "section" THEN [status |-> "SECTION_NOT_FOUND", page |-> page, location |-> in.location]
    ELSE IF nav = "row" THEN [status |-> "ROW_NOT_FOUND", page |-> page, location |-> in.location]
    ELSE IF nav = "cell" THEN [status |-> "CELL_NOT_FOUND", page |-> page, location |-> in.location]
    ELSE LET cell == CellAt(page, in.location)
             list == IF cell.hasWidgets THEN cell.widgets ELSE <<>>
             pushed == Append(list, CreatedWidget(in, t))
         IN  [status |-> "OK",
              page |-> WithCell(page, in.location, Cell(pushed)),
              location |-> [in.location EXCEPT !.widgetIndex = Len(pushed) - 1]]

RemoveLast(arr, start) == IF arr = <<>> THEN arr ELSE SubSeq(arr, 1, Len(arr) - 1)

RemoveFirst(arr, start) == IF arr = <<>> THEN arr ELSE Tail(arr)

\* array.splice(start, 1): the array without the element, a negative start
\* counting from the end
Splice(arr, start) ==
    LET from == IF start < 0 THEN Max(Len(arr) + start, 0) ELSE start
    IN  IF from >= Len(arr) THEN arr
        ELSE SubSeq(arr, 1, from) \o SubSeq(arr, from + 2, Len(arr))

\* removeWidget, step 2: the error status, or the page with the widget
\* spliced out
RemovedWidget(page, in) ==
    LET nav == Navigate(page, in.location) IN
    IF nav = "throws" THEN [status |-> "REMOVE_WIDGET_FAILED", page |-> page]
    ELSE IF nav = "section" THEN [status |-> "SECTION_NOT_FOUND", page |-> page]
    ELSE IF nav = "row" THEN [status |-> "ROW_NOT_FOUND", page |-> page]
    ELSE IF nav \in {"cell", "nowidgets"} THEN [status |-> "CELL_NOT_FOUND", page |-> page]
    ELSE LET cell == CellAt(page, in.location) IN
         IF in.location.widgetIndex >= Len(cell.widgets)
         THEN [status |-> "WIDGET_NOT_FOUND", page |-> page]
         ELSE IF cell.widgets = <<>>
         \* splice removed nothing: removedWidget.id throws
         THEN [status |-> "REMOVE_WIDGET_FAILED", page |-> page]
         ELSE [status |-> "OK",
               page |-> WithCell(page, in.location,
                            Cell(Splice(cell.widgets, in.location.widgetIndex)))]

(***************************************************************************)
(* HubSpotClient.request and the operations built on it.  A run is one     *)
(* call of an operation; `c` is the state a handler works on: its run, the *)
(* rate limiter and the logger.  Everything between two awaits is one step.*)
(***************************************************************************)
maxRetries == 4
baseDelayMs == 2000
JitterCeilingMs == 1000

RECURSIVE Pow2(_)
Pow2(n) == IF n = 0 THEN 1 ELSE 2 * Pow2(n - 1)

LinearBackoff(attempt, base, jitter) == (attempt + 1) * base + jitter

\* calculateBackoff(attempt, baseDelayMs), with the value `jitter` that
\* Math.random() * 1000 took, in whole milliseconds
Backoff(attempt, base, jitter) == Pow2(attempt) * base + jitter

\* calculateBackoff(attempt): the base delay takes its default
calculateBackoff(attempt, jitter) == Backoff(attempt, baseDelayMs, jitter)

Endpoint(resource, path) == [resource |-> resource, path |-> path]
Request(method, endpoint, body) == [method |-> method, endpoint |-> endpoint, body |-> body]
NoRequest == Request("none", Endpoint("none", "none"), EmptyObject)

\* a HubSpotResponse; `message` is the text of error.message up to the part
\* quoted from the response body
Success(data) ==
    [success |-> TRUE, status |-> "OK", message |-> "", correlationId |-> "",
     data |-> data]
ErrorResult(status, message, correlationId) ==
    [success |-> FALSE, status |-> status, message |-> message,
     correlationId |-> correlationId, data |-> EmptyObject]
\* a failure built in place: each status has its own message
Failure(status, correlationId) == ErrorResult(status, status, correlationId)
NoResult == Failure("none", "")

NoValidation == validatePageStructure(EmptyObject, EmptyObject)

\* the body of an error response, as response.json() gives it
Envelope(status, message, correlationId) ==
    [message |-> message, status |-> status, correlationId |-> correlationId]
NoErrorBody == Envelope("", "", "")
ErrorBody(status, message) == Envelope(status, message, "")

\* a fetch Response: status, the headers the client reads (correlationId is
\* the X-HubSpot-Correlation-Id header, "" when it is absent), and the body of
\* an error
Response(status, daily, burst, correlationId) ==
    [status |-> status, daily |-> daily, burst |-> burst,
     correlationId |-> correlationId, retryAfter |-> NoHeader, error |-> NoErrorBody]
NoResponse == Response(0, NoHeader, NoHeader, "")

NoInput ==
    [fields |-> EmptyObject, location |-> Location("", 0, 0, 0),
     html |-> NotGiven, styles |-> NoMap, params |-> NoMap,
     widgetType |-> "", widgetName |-> "", publishDate |-> NotGiven]

IdleRun ==
    [op |-> "none", pc |-> "idle", phase |-> "none", attempt |-> 0,
     req |-> NoRequest, wakeAt |-> 0, input |-> NoInput, opId |-> 0,
     hasBefore |-> FALSE, before |-> EmptyObject,
     mutated |-> FALSE, after |-> EmptyObject,
     validated |-> FALSE, validation |-> NoValidation,
     response |-> NoResponse, delay |-> 0,
     result |-> NoResult,
     sent |-> [GET |-> 0, PATCH |-> 0, POST |-> 0],
     startDraft |-> EmptyObject, startLive |-> EmptyObject]

\* response.statusText
StatusText(status) ==
    CASE status = 429 -> "Too Many Requests"
      [] status = 404 -> "Not Found"
      [] status = 401 -> "Unauthorized"
      [] status = 500 -> "Internal Server Error"
      [] OTHER -> "OK"

\* makeFriendlyErrorMessage(status, message)
makeFriendlyErrorMessage(status, message) ==
    CASE status = 401 -> "Authentication failed"
      [] status = 403 -> "Permission denied"
      [] status = 404 -> "Resource not found"
      [] status = 429 -> "Rate limit exceeded"
      [] status \in {500, 502, 503} -> "HubSpot service error"
      [] OTHER -> message

GenericError(resp) == ErrorResult("REQUEST_FAILED", "Request failed", resp.correlationId)

\* response.headers.get('X-HubSpot-Correlation-Id') || 'N/A'
CorrelationIdOf(resp) == IF resp.correlationId # "" THEN resp.correlationId ELSE "N/A"

\* parseError(response, data)
parseError(resp) ==
    IF resp.error.message # ""
    THEN ErrorResult(IF resp.error.status # "" THEN resp.error.status
                     ELSE StatusText(resp.status),
                     makeFriendlyErrorMessage(resp.status, resp.error.message),
                     CorrelationIdOf(resp))
    ELSE ErrorResult(StatusText(resp.status),
                     makeFriendlyErrorMessage(resp.status, "Unknown error occurred"),
                     CorrelationIdOf(resp))

RecordThenCheck(c, t, req, attempt) ==
    LET rec == recordRequest(c.rl, t) IN
    IF ~canMakeRequest(c.rl, t).ok
    THEN [c EXCEPT !.rl = rec, !.run.pc = "returned", !.run.req = req,
                   !.run.attempt = attempt,
                   !.run.result = Failure("RATE_LIMIT_SAFETY", "N/A")]
    ELSE [c EXCEPT !.rl = rec, !.run.pc = "inflight", !.run.req = req,
                   !.run.attempt = attempt, !.run.sent[req.method] = @ + 1]

AdmitFirstAttemptOnly(c, t, req, attempt) ==
    LET chk == canMakeRequest(c.rl, t) IN
    IF attempt = 0 /\ ~chk.ok
    THEN [c EXCEPT !.rl = getStatus(chk.limiter, t),
                   !.run.pc = "returned",
                   !.run.req = req,
                   !.run.attempt = attempt,
                   !.run.result = Failure("RATE_LIMIT_SAFETY", "N/A")]
    ELSE [c EXCEPT !.rl = recordRequest(chk.limiter, t),
                   !.run.pc = "inflight",
                   !.run.req = req,
                   !.run.attempt = attempt,
                   !.run.response = NoResponse,
                   !.run.sent[req.method] = @ + 1]

RecordFirstAttemptOnly(c, t, req, attempt) ==
    LET chk == canMakeRequest(c.rl, t) IN
    IF ~chk.ok
    THEN [c EXCEPT !.rl = getStatus(chk.limiter, t),
                   !.run.pc = "returned",
                   !.run.req = req,
                   !.run.attempt = attempt,
                   !.run.result = Failure("RATE_LIMIT_SAFETY", "N/A")]
    ELSE [c EXCEPT !.rl = IF attempt = 0 THEN recordRequest(chk.limiter, t)
                          ELSE chk.limiter,
                   !.run.pc = "inflight",
                   !.run.req = req,
                   !.run.attempt = attempt,
                   !.run.response = NoResponse,
                   !.run.sent[req.method] = @ + 1]

\* request(): from its entry to the await of fetch, or to the refusal
BeginRequest(c, t, req, attempt) ==
    LET chk == canMakeRequest(c.rl, t) IN
    IF ~chk.ok
    THEN [c EXCEPT !.rl = getStatus(chk.limiter, t),
                   !.run.pc = "returned",
                   !.run.req = req,
                   !.run.attempt = attempt,
                   !.run.result = Failure("RATE_LIMIT_SAFETY", "N/A")]
    ELSE [c EXCEPT !.rl = recordRequest(chk.limiter, t),
                   !.run.pc = "inflight",
                   !.run.req = req,
                   !.run.attempt = attempt,
                   !.run.response = NoResponse,
                   !.run.sent[req.method] = @ + 1]

\* await this.sleep(delay), then request(endpoint, options, attempt + 1)
Sleep(c, t, jitter) ==
    LET delay == calculateBackoff(c.run.attempt, jitter) IN
    [c EXCEPT !.run.pc = "sleeping", !.run.delay = delay, !.run.wakeAt = t + delay]

SurfaceFirstRejection(c, t, resp, data, jitter) ==
    LET c1 == [c EXCEPT !.rl = getStatus(updateFromHeaders(c.rl, resp.daily, resp.burst), t),
                        !.run.response = resp,
                        !.run.pc = "returned"] IN
    IF resp.status # 200
    THEN [c1 EXCEPT !.run.result = parseError(resp)]
    ELSE [c1 EXCEPT !.run.result = Success(data)]

RetryAnyFailure(c, t, resp, data, jitter) ==
    LET c1 == [c EXCEPT !.rl = updateFromHeaders(c.rl, resp.daily, resp.burst),
                        !.run.response = resp] IN
    IF resp.status # 200 /\ c.run.attempt < maxRetries
    THEN Sleep(c1, t, jitter)
    ELSE IF resp.status # 200
    THEN [c1 EXCEPT !.rl = getStatus(c1.rl, t),
                    !.run.pc = "returned",
                    !.run.result = parseError(resp)]
    ELSE [c1 EXCEPT !.rl = getStatus(c1.rl, t),
                    !.run.pc = "returned",
                    !.run.result = Success(data)]

\* request(): from the response of fetch to the return or the sleep
OnResponse(c, t, resp, data, jitter) ==
    LET c1 == [c EXCEPT !.rl = updateFromHeaders(c.rl, resp.daily, resp.burst),
                        !.run.response = resp] IN
    IF resp.status = 429 /\ c.run.attempt < maxRetries
    THEN Sleep(c1, t, jitter)
    ELSE IF resp.status # 200
    THEN [c1 EXCEPT !.rl = getStatus(c1.rl, t),
                    !.run.pc = "returned",
                    !.run.result = parseError(resp)]
    ELSE [c1 EXCEPT !.rl = getStatus(c1.rl, t),
                    !.run.pc = "returned",
                    !.run.result = Success(data)]

RetryWithoutLimit(c, t, jitter) == Sleep(c, t, jitter)

RethrowOnLastAttempt(c, t, jitter) ==
    IF c.run.attempt < maxRetries
    THEN Sleep(c, t, jitter)
    ELSE [c EXCEPT !.run.pc = "raised"]

\* request(): the catch block, fetch has thrown
OnNetworkError(c, t, jitter) ==
    IF c.run.attempt < maxRetries
    THEN Sleep(c, t, jitter)
    ELSE [c EXCEPT !.rl = getStatus(c.rl, t),
                   !.run.pc = "returned",
                   !.run.result = Failure("NETWORK_ERROR", "N/A")]

ReuseOperationId(lg) == lg

\* Logger.getNextOperationId
getNextOperationId(lg) == [lg EXCEPT !.operationId = @ + 1]

\* Logger.logOperation(operation, details, beforeState, afterState)
logOperation(lg, operation, hasBefore, beforeState, afterState) ==
    LET l == getNextOperationId(lg) IN
    [l EXCEPT !.records = Append(@,
        [operationId |-> l.operationId, operation |-> operation,
         hasBefore |-> hasBefore, beforeState |-> beforeState,
         afterState |-> afterState])]

\* a handler returns `result`; withStatus: it builds rateLimitStatus itself
Finish(c, t, result, withStatus) ==
    [c EXCEPT !.run.pc = "done",
              !.run.result = result,
              !.rl = IF withStatus THEN getStatus(c.rl, t) ELSE c.rl]

ResourceOf(op) ==
    IF op \in {"getBlogPost", "updateBlogPostMetadata", "updateBlogPostContent",
               "publishBlogPostDraft", "createBlogPost"}
    THEN "blog" ELSE "page"

MetadataOps == {"updateBlogPostMetadata", "updatePageMetadata"}
WidgetOps == {"updateWidgetContent", "addWidget", "removeWidget"}
UpdateOps == MetadataOps \cup {"updateBlogPostContent"} \cup WidgetOps
CreateOps == {"createBlogPost", "createPageFromTemplate"}
GetOps == {"getBlogPost", "getPage"}

LiveWrite(op, updated) ==
    Request("PATCH", Endpoint(ResourceOf(op), "object"), JsonStringify(updated))

NameOnlyWrite(op, updated) ==
    Request("PATCH", Endpoint(ResourceOf(op), "draft"), "name" :> Get(updated, "name"))

\* the PATCH of an update operation: the draft endpoint, the whole object
DraftWrite(op, updated) ==
    Request("PATCH", Endpoint(ResourceOf(op), "draft"), JsonStringify(updated))

\* steps 3 and 4 of a widget operation: validate, then PATCH or reject
ValidateAndCommit(c, t, updatedPage) ==
    LET v == validatePageStructure(c.run.before, updatedPage)
        c1 == [c EXCEPT !.run.mutated = TRUE, !.run.after = updatedPage,
                        !.run.validated = TRUE, !.run.validation = v]
    IN  IF ~v.isValid
        THEN Finish(c1, t, Failure("VALIDATION_FAILED", ToString(c.run.opId)), TRUE)
        ELSE BeginRequest([c1 EXCEPT !.run.phase = "commit"], t,
                          DraftWrite(c.run.op, updatedPage), 0)

FetchNeverFailed(res) == FALSE

FetchRefused(res) == res.status = "RATE_LIMIT_SAFETY"

\* `!currentResponse.success || !currentResponse.data`
FetchFailed(res) == ~res.success

\* a handler after its fetch has returned
OnFetchResult(c, t) ==
    LET op == c.run.op
        res == c.run.result
        in == c.run.input
        c0 == [c EXCEPT !.run.hasBefore = TRUE,
                        !.run.before = JsonStringify(res.data)]
        local(status) == Finish(c0, t, Failure(status, ToString(c.run.opId)), TRUE)
    IN
    IF op = "publishBlogPostDraft"
    THEN BeginRequest([(IF res.success THEN c0 ELSE c) EXCEPT !.run.phase = "commit"], t,
            Request("POST", Endpoint("blog", "push-live"),
                    IF in.publishDate.given /\ in.publishDate.value # ""
                    THEN "publishDate" :> Str(in.publishDate.value)
                    ELSE EmptyObject),
            0)
    ELSE IF FetchFailed(res)
    THEN Finish(c, t, res, op \in WidgetOps)
    ELSE IF op \in MetadataOps \cup {"updateBlogPostContent"}
    THEN LET updated ==
                 CASE op = "updateBlogPostMetadata" -> BlogPostMetadataMerge(res.data, in.fields)
                   [] op = "updatePageMetadata" -> PageMetadataMerge(res.data, in.fields)
                   [] OTHER -> BlogPostContentMerge(res.data, in.fields)
         IN  BeginRequest([c0 EXCEPT !.run.phase = "commit", !.run.mutated = TRUE,
                                     !.run.after = updated],
                          t, DraftWrite(op, updated), 0)
    ELSE IF op = "updateWidgetContent"
    THEN LET got == getWidgetAtLocation(res.data, in.location) IN
         IF ~got.found THEN local("WIDGET_NOT_FOUND")
         ELSE LET set == setWidgetAtLocation(res.data, in.location,
                                             UpdatedWidget(got.widget, in))
              IN  IF ~set.ok THEN local("UPDATE_FAILED")
                  ELSE ValidateAndCommit(c0, t, set.page)
    ELSE IF op = "addWidget"
    THEN LET added == AddedWidget(res.data, in, t) IN
         IF added.status # "OK" THEN local(added.status)
         ELSE ValidateAndCommit(
                  [c0 EXCEPT !.run.input.location = added.location], t, added.page)
    ELSE LET removed == RemovedWidget(res.data, in) IN
         IF removed.status # "OK" THEN local(removed.status)
         ELSE ValidateAndCommit(c0, t, removed.page)

\* a handler after its last request has returned
OnCommitResult(c, t) ==
    LET op == c.run.op
        res == c.run.result
    IN
    IF op \in GetOps
    THEN Finish(c, t, res, FALSE)
    ELSE IF ~res.success
    THEN Finish(c, t, res, op \in WidgetOps)
    ELSE Finish([c EXCEPT !.logger =
                    logOperation(c.logger, op, c.run.hasBefore, c.run.before, res.data)],
                t, res, op \in WidgetOps)

ResumeStopsOnFailedFetch(c, t) ==
    IF c.run.pc # "returned" THEN c
    ELSE IF c.run.phase = "fetch" /\ ~c.run.result.success
    THEN Finish(c, t, c.run.result, c.run.op \in WidgetOps)
    ELSE IF c.run.phase = "fetch"
    THEN LET c2 == OnFetchResult(c, t)
         IN  IF c2.run.pc = "returned" THEN OnCommitResult(c2, t) ELSE c2
    ELSE OnCommitResult(c, t)

\* the handler goes on in the same step when its request has returned
Resume(c, t) ==
    IF c.run.pc # "returned" THEN c
    ELSE IF c.run.phase = "fetch"
    THEN LET c2 == OnFetchResult(c, t)
         IN  IF c2.run.pc = "returned" THEN OnCommitResult(c2, t) ELSE c2
    ELSE OnCommitResult(c, t)

\* createBlogPost / createPageFromTemplate: the request body
CreateBody(op, params) ==
    LET required == "name" :> Get(params, "name") @@ "slug" :> Get(params, "slug")
                    @@ "state" :> Str("DRAFT")
        optional == IF op = "createBlogPost"
                    THEN {"postBody", "htmlTitle"} ELSE {"htmlTitle"}
        present == {k \in optional : Get(params, k).kind = "string" /\ params[k].str # ""}
    IN  JsonStringify(Spread(required, [k \in present |-> params[k]]))

\* the first request of an operation
FirstRequest(op, in) ==
    IF op \in CreateOps
    THEN Request("POST", Endpoint(ResourceOf(op), "collection"), CreateBody(op, in.fields))
    ELSE Request("GET", Endpoint(ResourceOf(op), "object"), EmptyObject)

\* an operation from its entry to its first await
Enter(c, t, op, in) ==
    LET l == IF op \in GetOps THEN c.logger ELSE getNextOperationId(c.logger)
        c1 == [c EXCEPT !.logger = l,
                        !.run.op = op, !.run.input = in,
                        !.run.opId = l.operationId,
                        !.run.phase = IF op \in GetOps \cup CreateOps
                                      THEN "commit" ELSE "fetch"]
    IN  Resume(BeginRequest(c1, t, FirstRequest(op, in), 0), t)

(***************************************************************************)
(* uploadFile: it does not go through request(); it checks and records the *)
(* rate limit itself and never retries.                                    *)
(***************************************************************************)
\* params.fileContent.startsWith('http://') || ...startsWith('https://')
IsUrl(content) == content \in {"http://cdn.example/a.png", "https://cdn.example/a.png"}

\* uploadFile from the rate limit check to the await of fetch, or the refusal
UploadBegin(c, t) ==
    LET chk == canMakeRequest(c.rl, t)
        req == Request("POST", Endpoint("file", "files"), EmptyObject)
    IN  IF ~chk.ok
        THEN [c EXCEPT !.rl = getStatus(chk.limiter, t),
                       !.run.pc = "done",
                       !.run.req = req,
                       !.run.result = Failure("RATE_LIMIT_SAFETY", "N/A")]
        ELSE [c EXCEPT !.rl = recordRequest(chk.limiter, t),
                       !.run.pc = "inflight",
                       !.run.req = req,
                       !.run.response = NoResponse,
                       !.run.sent[req.method] = @ + 1]

\* uploadFile from its entry to its first await
UploadEnter(c, t, in) ==
    LET l == getNextOperationId(c.logger)
        c1 == [c EXCEPT !.logger = l, !.run.op = "uploadFile", !.run.input = in,
                        !.run.opId = l.operationId, !.run.phase = "commit"]
    IN  IF IsUrl(Get(in.fields, "fileContent").str)
        THEN [c1 EXCEPT !.run.pc = "download"]
        ELSE UploadBegin(c1, t)

\* the fetch of the file's URL has settled
OnDownload(c, t, ok) ==
    IF ok THEN UploadBegin(c, t)
    ELSE Finish(c, t, Failure("FILE_FETCH_ERROR", "N/A"), TRUE)

\* uploadFile after its fetch has resolved
OnUploadResponse(c, t, resp, data) ==
    LET c1 == [c EXCEPT !.rl = updateFromHeaders(c.rl, resp.daily, resp.burst),
                        !.run.response = resp] IN
    IF resp.status # 200
    THEN Finish(c1, t, parseError(resp), TRUE)
    ELSE Finish(c1, t, Success(data), TRUE)

\* uploadFile: the catch block
OnUploadError(c, t) == Finish(c, t, Failure("NETWORK_ERROR", "N/A"), TRUE)

(***************************************************************************)
(* The remote service: one content object with its draft and its live      *)
(* version, and the objects created so far.                                *)
(***************************************************************************)
RunIds == {1, 2}

NoRemote == [type |-> "none", draft |-> EmptyObject, live |-> EmptyObject, created |-> <<>>]
NewLogger == [operationId |-> 0, records |-> <<>>]

\* what the service does with a request it accepts: its state after, and the
\* payload of its response
Serve(rem, req) ==
    CASE req.endpoint.path = "draft" /\ req.method = "PATCH" ->
            LET d == Spread(rem.draft, req.body)
            IN  [remote |-> [rem EXCEPT !.draft = d], data |-> d]
      [] req.endpoint.path = "push-live" /\ req.method = "POST" ->
            [remote |-> [rem EXCEPT !.live = rem.draft], data |-> rem.draft]
      [] req.endpoint.path = "collection" /\ req.method = "POST" ->
            [remote |-> [rem EXCEPT !.created = Append(@, req.body)], data |-> req.body]
      [] req.endpoint.path = "object" /\ req.method = "PATCH" ->
            LET d == Spread(rem.live, req.body)
            IN  [remote |-> [rem EXCEPT !.live = d, !.draft = d], data |-> d]
      [] OTHER -> [remote |-> rem, data |-> rem.draft]

WidgetA == NewWidgetRecord("w-a", "Heading", "module", HtmlBody("<h1>a</h1>"),
                           Map("size" :> Str("1")), Map("color" :> Str("red")))
WidgetB == NewWidgetRecord("w-b", "Text", "rich_text", HtmlBody("<p>b</p>"), NoMap, NoMap)
WidgetC == NewWidgetRecord("w-c", "Image", "module", NoBody, Map(EmptyObject), NoMap)

LayoutOne ==
    "main" :> Section(<<Row(<<Cell(<<WidgetA, WidgetB, WidgetC>>), CellWithoutWidgets>>)>>)
    @@ "side" :> SectionWithoutRows

PageOne ==
    "name" :> Str("Home") @@ "slug" :> Str("home") @@ "state" :> Str("PUBLISHED")
    @@ "widgets" :> Str("page-widgets") @@ "layoutSections" :> Tree(LayoutOne)
PageBare ==
    "name" :> Str("Bare") @@ "slug" :> Str("bare") @@ "state" :> Str("DRAFT")
PostOne ==
    "name" :> Str("Post") @@ "slug" :> Str("post") @@ "state" :> Str("PUBLISHED")
    @@ "postBody" :> Str("<p>draft</p>") @@ "widgets" :> Str("post-widgets")
    @@ "widgetContainers" :> Str("post-containers")
    @@ "layoutSections" :> Tree("main" :> Section(<<Row(<<Cell(<<WidgetB>>)>>)>>))
PostBare ==
    "name" :> Str("Note") @@ "slug" :> Str("note") @@ "state" :> Str("DRAFT")
    @@ "postBody" :> Str("<p>note</p>") @@ "postSummary" :> Str("sum")

\* the objects the remote service may hold when the client starts
Fixtures ==
    {[type |-> "page", draft |-> PageOne, live |-> PageOne, created |-> <<>>],
     [type |-> "page", draft |-> PageBare, live |-> PageBare, created |-> <<>>],
     [type |-> "blog", draft |-> PostOne,
      live |-> Assign(PostOne, "postBody", Str("<p>live</p>")), created |-> <<>>],
     [type |-> "blog", draft |-> PostBare, live |-> PostBare, created |-> <<>>]}

(***************************************************************************)
(* The inputs of the operations.  They arrive as JSON tool arguments: a    *)
(* field is absent or has a value.                                         *)
(***************************************************************************)
Fields(f) == [NoInput EXCEPT !.fields = f]

MetadataInputs ==
    {Fields(EmptyObject),
     Fields("name" :> Str("Renamed")),
     Fields("name" :> Str("Renamed") @@ "slug" :> Str("moved")),
     Fields("slug" :> Str("moved") @@ "postBody" :> Str("<p>injected</p>")
            @@ "widgets" :> Str("injected") @@ "widgetContainers" :> Str("injected")
            @@ "layoutSections" :> Tree("other" :> SectionWithoutRows))}

ContentInputs ==
    {Fields("postBody" :> Str("<p>new</p>")),
     Fields("postBody" :> Str("<p>new</p>") @@ "postSummary" :> Str("short"))}

CreateInputs ==
    {Fields("name" :> Str("New") @@ "slug" :> Str("new")),
     Fields("name" :> Str("New") @@ "slug" :> Str("new") @@ "postBody" :> Str("<p>x</p>")
            @@ "state" :> Str("PUBLISHED"))}

PublishInputs ==
    {NoInput, [NoInput EXCEPT !.publishDate = Given("2030-01-01T00:00:00Z")]}

WidgetLocations ==
    {Location("main", 0, 0, 0), Location("main", 0, 0, 1), Location("main", 0, 0, 2),
     Location("main", 0, 0, 3), Location("main", 0, 0, 0 - 1),
     Location("main", 0, 1, 0), Location("main", 0, 2, 0), Location("main", 1, 0, 0),
     Location("side", 0, 0, 0), Location("footer", 0, 0, 0)}

CellLocations == {l \in WidgetLocations : l.widgetIndex = 0}

WidgetUpdateInputs ==
    {[NoInput EXCEPT !.location = l, !.html = Given("<p>edited</p>")] : l \in WidgetLocations}
    \cup {[NoInput EXCEPT !.location = Location("main", 0, 0, 0),
                          !.styles = Map("color" :> Str("blue")),
                          !.params = Map("align" :> Str("left"))],
          [NoInput EXCEPT !.location = Location("main", 0, 0, 2)]}

WidgetAddInputs ==
    {[NoInput EXCEPT !.location = l, !.widgetType = "module", !.widgetName = "Added",
                     !.html = h] : l \in CellLocations, h \in {NotGiven, Given("<p>added</p>")}}

WidgetRemoveInputs == {[NoInput EXCEPT !.location = l] : l \in WidgetLocations}

UploadInputs ==
    {Fields("fileContent" :> Str("aGVsbG8=")),
     Fields("fileContent" :> Str("https://cdn.example/a.png"))}

InputsOf(op) ==
    CASE op \in MetadataOps -> MetadataInputs
      [] op = "updateBlogPostContent" -> ContentInputs
      [] op \in CreateOps -> CreateInputs
      [] op = "publishBlogPostDraft" -> PublishInputs
      [] op = "updateWidgetContent" -> WidgetUpdateInputs
      [] op = "addWidget" -> WidgetAddInputs
      [] op = "removeWidget" -> WidgetRemoveInputs
      [] op = "uploadFile" -> UploadInputs
      [] OTHER -> {NoInput}

(***************************************************************************)
(* The RateLimiter on its own: its methods called in any order, at any     *)
(* time.                                                                   *)
(***************************************************************************)
NoCall == [op |-> "none", ok |-> TRUE, elapsed |-> FALSE, burstBefore |-> burstLimit]

Called(op, ok) ==
    [op |-> op, ok |-> ok,
     elapsed |-> now - rateLimiter.lastBurstReset >= burstWindowMs,
     burstBefore |-> rateLimiter.burstRemaining]

InitLimiter ==
    /\ now = 0
    /\ rateLimiter = NewRateLimiter(0)
    /\ lastCall = NoCall
    /\ calls = [record |-> 0, headers |-> 0]
    /\ runs = [r \in RunIds |-> IdleRun]
    /\ remote = NoRemote
    /\ logger = NewLogger

AdvanceClock ==
    \E d \in ClockSteps :
        /\ now + d <= MaxNow
        /\ now' = now + d
        /\ lastCall' = Called("clock", TRUE)
        /\ UNCHANGED <<rateLimiter, calls, runs, remote, logger>>

CallCanMakeRequest ==
    LET res == canMakeRequest(rateLimiter, now)
    IN  /\ rateLimiter' = res.limiter
        /\ lastCall' = Called("canMakeRequest", res.ok)
        /\ UNCHANGED <<now, calls, runs, remote, logger>>

CallRecordRequest(bound) ==
    /\ calls.record < bound
    /\ rateLimiter' = recordRequest(rateLimiter, now)
    /\ lastCall' = Called("recordRequest", TRUE)
    /\ calls' = [calls EXCEPT !.record = @ + 1]
    /\ UNCHANGED <<now, runs, remote, logger>>

CallGetStatus ==
    /\ rateLimiter' = getStatus(rateLimiter, now)
    /\ lastCall' = Called("getStatus", TRUE)
    /\ UNCHANGED <<now, calls, runs, remote, logger>>

CallUpdateFromHeaders ==
    \E d \in DailyHeaders, b \in BurstHeaders :
        /\ calls.headers < MaxHeaders
        /\ rateLimiter' = updateFromHeaders(rateLimiter, d, b)
        /\ lastCall' = Called("updateFromHeaders", TRUE) @@ [daily |-> d, burst |-> b]
        /\ calls' = [calls EXCEPT !.headers = @ + 1]
        /\ UNCHANGED <<now, runs, remote, logger>>

\* canMakeRequest, recordRequest and getStatus only: no header is ever seen
NextBudget ==
    \/ AdvanceClock
    \/ CallCanMakeRequest
    \/ CallRecordRequest(MaxCalls)
    \/ CallGetStatus

SpecBudget == InitLimiter /\ [][NextBudget]_vars

\* every method of the RateLimiter
NextLimiter ==
    \/ AdvanceClock
    \/ CallCanMakeRequest
    \/ CallRecordRequest(MaxObserved)
    \/ CallGetStatus
    \/ CallUpdateFromHeaders

SpecLimiter == InitLimiter /\ [][NextLimiter]_vars

\* calculateBackoff called with any attempt, base delay and random draw
Backed(attempt, base, jitter) ==
    [op |-> "calculateBackoff", attempt |-> attempt, base |-> base,
     jitter |-> jitter, delay |-> Backoff(attempt, base, jitter)]

CallCalculateBackoff ==
    \E attempt \in 0..MaxAttempt, base \in BaseDelays, jitter \in 0..(JitterCeilingMs - 1) :
        /\ lastCall = NoCall
        /\ lastCall' = Backed(attempt, base, jitter)
        /\ UNCHANGED <<rateLimiter, now, calls, runs, remote, logger>>

NextBackoff == CallCalculateBackoff

SpecBackoff == InitLimiter /\ [][NextBackoff]_vars

\* validatePageStructure called with any two snapshots
SectionNames == {"main", "side", "footer"}
SectionKinds ==
    {SectionWithoutRows,
     Section(<<Row(<<Cell(<<WidgetA>>)>>)>>),
     Section(<<Row(<<Cell(<<WidgetA, WidgetB>>), CellWithoutWidgets>>)>>)}

Snapshots ==
    {PageBare} \cup
    {Assign(PageBare, "layoutSections", Tree(l)) :
        l \in UNION {[names -> SectionKinds] : names \in SUBSET SectionNames}}

Validated(beforePage, afterPage) ==
    [op |-> "validatePageStructure", beforePage |-> beforePage, afterPage |-> afterPage,
     validation |-> validatePageStructure(beforePage, afterPage)]

CallValidatePageStructure ==
    \E beforePage \in Snapshots, afterPage \in Snapshots :
        /\ lastCall = NoCall
        /\ lastCall' = Validated(beforePage, afterPage)
        /\ UNCHANGED <<rateLimiter, now, calls, runs, remote, logger>>

NextValidate == CallValidatePageStructure

SpecValidate == InitLimiter /\ [][NextValidate]_vars

(***************************************************************************)
(* The client: runs of operations against the remote service.              *)
(***************************************************************************)
Statuses == {200, 429, 404, 500}
Jitters == {0, JitterCeilingMs - 1}

\* the responses a run may receive
Responses(headers) ==
    {Response(st, h[1], h[2], "") : st \in Statuses, h \in headers}

\* the same with the Retry-After header and the error bodies of the service
Rejections(resps, retryAfters, errors) ==
    {r \in resps : r.status = 200} \cup
    {[r EXCEPT !.retryAfter = ra, !.error = e] :
        r \in {x \in resps : x.status # 200}, ra \in retryAfters, e \in errors}

Context(r) == [run |-> runs[r], rl |-> rateLimiter, logger |-> logger]

Becomes(r, c) ==
    /\ runs' = [runs EXCEPT ![r] = c.run]
    /\ rateLimiter' = c.rl
    /\ logger' = c.logger

\* a caller calls an operation
Start(r, ops) ==
    \E op \in ops :
        \E in \in InputsOf(op) :
            /\ runs[r].pc = "idle"
            /\ ResourceOf(op) = remote.type
            /\ Becomes(r, Enter([Context(r) EXCEPT !.run.startDraft = remote.draft,
                                                   !.run.startLive = remote.live],
                                now, op, in))
            /\ UNCHANGED <<now, lastCall, calls, remote>>

\* the remote service answers the request in flight
Respond(r, resps) ==
    \E resp \in resps, jitter \in Jitters :
        LET served == Serve(remote, runs[r].req) IN
        /\ runs[r].pc = "inflight"
        /\ remote' = IF resp.status = 200 THEN served.remote ELSE remote
        /\ Becomes(r, Resume(OnResponse(Context(r), now, resp, served.data, jitter), now))
        /\ UNCHANGED <<now, lastCall, calls>>

\* fetch throws: the request or its response is lost
NetworkError(r) ==
    \E applied \in BOOLEAN, jitter \in Jitters :
        /\ runs[r].pc = "inflight"
        /\ remote' = IF applied THEN Serve(remote, runs[r].req).remote ELSE remote
        /\ Becomes(r, Resume(OnNetworkError(Context(r), now, jitter), now))
        /\ UNCHANGED <<now, lastCall, calls>>

\* the timer of a sleeping run fires, no sooner than its delay
Wake(r) ==
    /\ runs[r].pc = "sleeping"
    /\ \A o \in RunIds : runs[o].pc = "sleeping" => runs[r].wakeAt <= runs[o].wakeAt
    /\ now' = Max(now, runs[r].wakeAt)
    /\ Becomes(r, Resume(BeginRequest(Context(r), now', runs[r].req,
                                      runs[r].attempt + 1), now'))
    /\ UNCHANGED <<lastCall, calls, remote>>

InitClient ==
    /\ now = 0
    /\ rateLimiter = NewRateLimiter(0)
    /\ lastCall = NoCall
    /\ calls = [record |-> 0, headers |-> 0]
    /\ runs = [r \in RunIds |-> IdleRun]
    /\ remote \in Fixtures
    /\ logger = NewLogger

\* the update pipeline: one run, every operation
PipelineOps == UpdateOps \cup CreateOps \cup {"publishBlogPostDraft"}
PipelineHeaders ==
    {<<NoHeader, NoHeader>>, <<NoHeader, Header(<<"1","0">>)>>}

Next ==
    \/ Start(1, PipelineOps)
    \/ Respond(1, Responses(PipelineHeaders))
    \/ NetworkError(1)
    \/ Wake(1)

Spec == InitClient /\ [][Next]_vars

(***************************************************************************)
(* Single requests: getBlogPost / getPage are one call of request() each,  *)
(* and uploadFile is one fetch.                                            *)
(***************************************************************************)
\* a caller calls uploadFile
StartUpload(r) ==
    \E in \in UploadInputs :
        /\ runs[r].pc = "idle"
        /\ Becomes(r, UploadEnter(Context(r), now, in))
        /\ UNCHANGED <<now, lastCall, calls, remote>>

\* the fetch of the file to upload settles
Downloaded(r) ==
    \E ok \in BOOLEAN :
        /\ runs[r].pc = "download"
        /\ Becomes(r, OnDownload(Context(r), now, ok))
        /\ UNCHANGED <<now, lastCall, calls, remote>>

\* the files endpoint answers
UploadRespond(r, resps) ==
    \E resp \in resps :
        /\ runs[r].pc = "inflight" /\ runs[r].op = "uploadFile"
        /\ Becomes(r, OnUploadResponse(Context(r), now, resp, EmptyObject))
        /\ UNCHANGED <<now, lastCall, calls, remote>>

\* the upload's fetch throws
UploadError(r) ==
    /\ runs[r].pc = "inflight" /\ runs[r].op = "uploadFile"
    /\ Becomes(r, OnUploadError(Context(r), now))
    /\ UNCHANGED <<now, lastCall, calls, remote>>

\* what the service may answer to a single request
RequestHeaders == {<<NoHeader, NoHeader>>, <<NoHeader, Header(<<"1","1">>)>>}
RetryAfters == {NoHeader, Header(<<"5","0","0">>)}
ErrorBodies ==
    {NoErrorBody, ErrorBody("error", "limit reached"), ErrorBody("", "not available"),
     Envelope("error", "limit reached", "b41f")}
CorrelationHeaders == {"", "c7d1"}
RequestResponses ==
    Rejections({Response(st, h[1], h[2], cid) :
                   st \in Statuses \cup {401}, h \in RequestHeaders,
                   cid \in CorrelationHeaders},
               RetryAfters, ErrorBodies)

\* one caller, one request at a time
NextRequest ==
    \/ Start(1, GetOps)
    \/ runs[1].op \in GetOps /\ Respond(1, RequestResponses)
    \/ runs[1].op \in GetOps /\ NetworkError(1)
    \/ Wake(1)

SpecRequest == InitClient /\ [][NextRequest]_vars

\* every fetch settles and every timer fires
SpecRequestLive ==
    /\ SpecRequest
    /\ WF_vars(Respond(1, RequestResponses) \/ NetworkError(1))
    /\ WF_vars(Wake(1))

\* two callers share the client and its RateLimiter
Callers(A(_)) == \E r \in RunIds : A(r)

StartAny(r) == Start(r, GetOps)
ConcurrentResponses ==
    {resp \in Responses(RequestHeaders) : resp.status \in {200, 429}}
RespondAny(r) == runs[r].op \in GetOps /\ Respond(r, ConcurrentResponses)
NetworkErrorAny(r) == runs[r].op \in GetOps /\ NetworkError(r)
UploadRespondAny(r) == UploadRespond(r, ConcurrentResponses)

NextConcurrent ==
    \/ Callers(StartAny)
    \/ Callers(RespondAny)
    \/ Callers(NetworkErrorAny)
    \/ Callers(Wake)
    \/ Callers(StartUpload)
    \/ Callers(Downloaded)
    \/ Callers(UploadRespondAny)
    \/ Callers(UploadError)

InitConcurrent == InitClient /\ remote.draft = PostBare

SpecConcurrent == InitConcurrent /\ [][NextConcurrent]_vars

\* the service answers with a body that is not JSON: response.json() rejects
\* and `.catch(() => ({}))` gives the empty object
RespondUndecodable(r, resps) ==
    \E resp \in resps, jitter \in Jitters :
        /\ runs[r].pc = "inflight"
        /\ remote' = IF resp.status = 200 THEN Serve(remote, runs[r].req).remote ELSE remote
        /\ Becomes(r, Resume(OnResponse(Context(r), now, resp, EmptyObject, jitter), now))
        /\ UNCHANGED <<now, lastCall, calls>>

\* one run of a read or an update, against every kind of answer
OutcomeOps == GetOps \cup UpdateOps
OutcomeResponses == Responses({<<NoHeader, NoHeader>>})

NextOutcome ==
    \/ Start(1, OutcomeOps)
    \/ Respond(1, OutcomeResponses)
    \/ RespondUndecodable(1, OutcomeResponses)
    \/ NetworkError(1)
    \/ Wake(1)

SpecOutcome == InitClient /\ [][NextOutcome]_vars

\* two callers run operations that are recorded
AuditOps == {"updateBlogPostContent", "createBlogPost", "publishBlogPostDraft"}
AuditResponses ==
    {resp \in Responses({<<NoHeader, NoHeader>>}) : resp.status \in {200, 404}}

StartAudit(r) == Start(r, AuditOps)
RespondAudit(r) == Respond(r, AuditResponses)

NextAudit ==
    \/ Callers(StartAudit)
    \/ Callers(RespondAudit)

SpecAudit == InitConcurrent /\ [][NextAudit]_vars

\* one caller makes one request or upload after another; the service reports
\* its daily count in some of its answers
DailyResponses ==
    {Response(st, d, NoHeader, "") :
        st \in {200, 429},
        d \in {NoHeader, Header(<<"5","0","0","0","1">>), Header(<<"3">>)}}

\* the call has returned and the caller makes another
Again(r) ==
    /\ runs[r].pc = "done"
    /\ calls.record < MaxRequests
    /\ runs' = [runs EXCEPT ![r] = IdleRun]
    /\ calls' = [calls EXCEPT !.record = @ + 1]
    /\ UNCHANGED <<rateLimiter, now, lastCall, remote, logger>>

NextDaily ==
    \/ Start(1, GetOps)
    \/ runs[1].op \in GetOps /\ Respond(1, DailyResponses)
    \/ runs[1].op \in GetOps /\ NetworkError(1)
    \/ Wake(1)
    \/ StartUpload(1)
    \/ Downloaded(1)
    \/ UploadRespond(1, DailyResponses)
    \/ UploadError(1)
    \/ Again(1)

SpecDaily == InitConcurrent /\ [][NextDaily]_vars

\* two callers update the same page
RaceOps == {"updateWidgetContent", "updatePageMetadata"}

StartRace(r) == Start(r, RaceOps)

NextRace ==
    \/ Callers(StartRace)
    \/ Callers(RespondAudit)

InitRace == InitClient /\ remote.draft = PageOne

SpecRace == InitRace /\ [][NextRace]_vars

(***************************************************************************)
(* Properties of the update operations.                                    *)
(***************************************************************************)
Ended(r) == runs[r].pc = "done"
Writes(r) == runs[r].sent.PATCH + runs[r].sent.POST
Attempts(r) == runs[r].sent.GET + Writes(r)

\* C1: in updateWidgetContent, addWidget and removeWidget a validation with
\* isValid = FALSE ends the run with VALIDATION_FAILED and no PATCH or POST.
RejectedRunWritesNothing ==
    \A r \in RunIds :
        (runs[r].op \in WidgetOps /\ runs[r].validated /\ ~runs[r].validation.isValid)
        => (Ended(r) /\ runs[r].result.status = "VALIDATION_FAILED" /\ Writes(r) = 0)

\* a widget operation whose validation rejected
ValidationRejected ==
    \E r \in RunIds : runs[r].validated /\ ~runs[r].validation.isValid

ContentKeys == {"postBody"} \cup NestedKeys

\* the PATCH a run has sent or is sending
Patching(r) == runs[r].req.method = "PATCH"

SameField(a, b, k) == (k \in DOMAIN a <=> k \in DOMAIN b) /\ Get(a, k) = Get(b, k)

\* C3: the object a metadata update sends has the content body and the nested
\* trees of the fetched object, whatever the input carries.
MetadataKeepsContent ==
    \A r \in RunIds :
        (runs[r].op \in MetadataOps /\ Patching(r)) =>
            \A k \in ContentKeys : SameField(runs[r].req.body, runs[r].before, k)

\* the fields an operation's input names
Named(r) ==
    IF runs[r].op \in WidgetOps THEN {"layoutSections"}
    ELSE DOMAIN runs[r].input.fields

\* C4: the body of every draft write has every field of the fetched object,
\* and each field the input does not name has its fetched value.
DraftWriteIsWhole ==
    \A r \in RunIds :
        (runs[r].op \in UpdateOps /\ Patching(r)) =>
            \A k \in DOMAIN runs[r].before :
                /\ k \in DOMAIN runs[r].req.body
                /\ k \notin Named(r) => runs[r].req.body[k] = runs[r].before[k]

\* a draft write in flight that changes a field and keeps the others
WholeBodyInFlight ==
    \E r \in RunIds :
        /\ runs[r].op \in UpdateOps /\ Patching(r) /\ runs[r].pc = "inflight"
        /\ runs[r].req.body # runs[r].before
        /\ Cardinality(DOMAIN runs[r].before) > Cardinality(Named(r)) + 1

\* C5: an update operation writes with PATCH on the draft endpoint only, a
\* created object is in state DRAFT, and the live version changes only in a
\* step of a publish run whose request is the push-live POST.
UpdateWritesDraftOnly ==
    \A r \in RunIds :
        /\ (runs[r].op \in UpdateOps /\ runs[r].req.method # "none") =>
               \/ runs[r].req.method = "GET"
               \/ runs[r].req.method = "PATCH" /\ runs[r].req.endpoint.path = "draft"
        /\ (runs[r].op \in CreateOps /\ runs[r].req.method # "none") =>
               /\ runs[r].req.method = "POST"
               /\ Get(runs[r].req.body, "state") = Str("DRAFT")

CreatedAsDraft ==
    \A i \in 1..Len(remote.created) : Get(remote.created[i], "state") = Str("DRAFT")

LiveOnlyByPublish ==
    remote'.live # remote.live =>
        \E r \in RunIds :
            /\ runs[r].op = "publishBlogPostDraft"
            /\ runs[r].req.method = "POST" /\ runs[r].req.endpoint.path = "push-live"

DraftFirst ==
    /\ [](UpdateWritesDraftOnly /\ CreatedAsDraft)
    /\ [][LiveOnlyByPublish]_vars

\* an update has changed the draft and left the live version alone
DraftAheadOfLive ==
    \E r \in RunIds :
        /\ runs[r].op \in UpdateOps /\ Ended(r) /\ runs[r].result.success
        /\ remote.draft # runs[r].startDraft
        /\ remote.live = runs[r].startLive

\* C9: a refused attempt ends the request at once with RATE_LIMIT_SAFETY: the
\* run is over, the refused attempt was not sent, and the daily counter has
\* been decremented once for each attempt sent and never for a refusal.
RefusalSendsNothing ==
    /\ \A r \in RunIds :
          runs[r].result.status = "RATE_LIMIT_SAFETY" =>
              /\ Ended(r) /\ ~runs[r].result.success
              /\ runs[r].sent[runs[r].req.method] = runs[r].attempt
    /\ rateLimiter.dailyRemaining = dailyLimit - (Attempts(1) + Attempts(2))

\* a retry refused after the first attempt was sent
RefusedOnRetry ==
    \E r \in RunIds :
        /\ runs[r].result.status = "RATE_LIMIT_SAFETY"
        /\ runs[r].attempt = 1 /\ runs[r].sent[runs[r].req.method] = 1

\* the widgets of a cell, none when it has no list
WidgetsOf(cell) == IF cell.hasWidgets THEN cell.widgets ELSE <<>>

\* C20: in the page addWidget has built, the location it returns holds the
\* new widget, and removing at that location gives back the widgets the cell
\* had and changes nothing else; when the cell had a widget list the page is
\* again the fetched page.
InsertThenRemoveRestores ==
    \A r \in RunIds :
        (runs[r].op = "addWidget" /\ runs[r].mutated) =>
            LET in == runs[r].input
                page == runs[r].after
                orig == runs[r].before
                got == getWidgetAtLocation(page, in.location)
                back == RemovedWidget(page, in)
            IN  /\ got.found
                /\ got.widget.name = in.widgetName /\ got.widget.type = in.widgetType
                /\ got.widget.body = (IF in.html.given THEN HtmlBody(in.html.value) ELSE NoBody)
                /\ in.location.widgetIndex = Len(WidgetsOf(CellAt(orig, in.location)))
                /\ back.status = "OK"
                /\ WidgetsOf(CellAt(back.page, in.location))
                       = WidgetsOf(CellAt(orig, in.location))
                /\ back.page = WithCell(orig, in.location, CellAt(back.page, in.location))
                /\ CellAt(orig, in.location).hasWidgets => back.page = orig

\* a widget added behind the three widgets of a cell
AddedAtTail ==
    \E r \in RunIds :
        /\ runs[r].op = "addWidget" /\ runs[r].mutated
        /\ runs[r].input.location.widgetIndex = 3
        /\ Len(CellAt(runs[r].after, runs[r].input.location).widgets) = 4

\* an address resolves in an object: the section, the row and the cell are
\* there and, when a widget is addressed, its index is one of the cell's
Resolves(page, loc, toWidget) ==
    /\ HasLayout(page)
    /\ loc.sectionName \in DOMAIN Layout(page)
    /\ LET sec == Layout(page)[loc.sectionName] IN
       /\ sec.hasRows
       /\ loc.rowIndex >= 0 /\ loc.rowIndex < Len(sec.rows)
       /\ LET row == sec.rows[loc.rowIndex + 1] IN
          /\ row.hasCells
          /\ loc.columnIndex >= 0 /\ loc.columnIndex < Len(row.cells)
          /\ toWidget =>
                 /\ row.cells[loc.columnIndex + 1].hasWidgets
                 /\ loc.widgetIndex >= 0
                 /\ loc.widgetIndex < Len(row.cells[loc.columnIndex + 1].widgets)

\* a widget run whose address does not resolve in the object it fetched
Unresolved(r) ==
    /\ runs[r].op \in WidgetOps /\ runs[r].hasBefore
    /\ ~Resolves(runs[r].before, runs[r].input.location, runs[r].op # "addWidget")

\* C21: locating, replacing, inserting or removing at an address that does
\* not resolve (missing section, row or cell, or a widget index at or beyond
\* the cell's length, or negative) gives a failure and leaves the object as it
\* was fetched: no changed object is built.
UnresolvedAddressChangesNothing ==
    \A r \in RunIds :
        Unresolved(r) =>
            /\ ~runs[r].mutated
            /\ Ended(r) /\ ~runs[r].result.success

NotFoundStatuses ==
    {"WIDGET_NOT_FOUND", "SECTION_NOT_FOUND", "ROW_NOT_FOUND", "CELL_NOT_FOUND"}

\* C22: a widget run whose address does not resolve in the fetched object
\* ends with WIDGET_NOT_FOUND, SECTION_NOT_FOUND, ROW_NOT_FOUND or
\* CELL_NOT_FOUND and sends nothing after the fetch.
UnresolvedAddressEndsRun ==
    \A r \in RunIds :
        Unresolved(r) =>
            /\ Ended(r)
            /\ runs[r].result.status \in NotFoundStatuses
            /\ Writes(r) = 0

\* the change of the total widget count an operation is meant to make
ExpectedDelta(op) ==
    CASE op = "addWidget" -> 1
      [] op = "removeWidget" -> 0 - 1
      [] OTHER -> 0

\* the validation of a run carries the widget-count warning
CountWarned(r) ==
    [kind |-> "widget count changed", section |-> ""] \in runs[r].validation.warnings

\* C26: the validation of a widget run carries the widget-count warning when,
\* and only when, the change of the total widget count differs from the
\* expected delta of the operation (0 update, +1 add, -1 remove); a validation
\* with the warning and no error is valid and the run goes on to request its
\* PATCH.
CountWarningIffUnexpected ==
    \A r \in RunIds :
        (runs[r].op \in WidgetOps /\ runs[r].validated) =>
            LET v == runs[r].validation IN
            /\ CountWarned(r) <=>
                   (v.afterWidgetCount - v.beforeWidgetCount # ExpectedDelta(runs[r].op))
            /\ (CountWarned(r) /\ v.errors = {}) =>
                   (v.isValid /\ runs[r].req.method = "PATCH")

\* C27: removeWidget at a valid index i of a cell of n widgets builds a page
\* whose cell has n - 1 widgets, those before i as they were and those after
\* i one place lower, and that is otherwise the fetched page; its validation
\* counts one widget less and is valid.
RemoveShiftsDown ==
    \A r \in RunIds :
        (runs[r].op = "removeWidget" /\ runs[r].hasBefore
         /\ Resolves(runs[r].before, runs[r].input.location, TRUE)) =>
            LET loc == runs[r].input.location
                i == loc.widgetIndex
                old == CellAt(runs[r].before, loc).widgets
                new == CellAt(runs[r].after, loc).widgets
                v == runs[r].validation
            IN  /\ runs[r].mutated /\ runs[r].validated
                /\ Len(new) = Len(old) - 1
                /\ \A k \in 1..i : new[k] = old[k]
                /\ \A k \in (i + 1)..Len(new) : new[k] = old[k + 1]
                /\ runs[r].after = WithCell(runs[r].before, loc, Cell(new))
                /\ v.afterWidgetCount = v.beforeWidgetCount - 1
                /\ v.isValid

\* the second of three widgets removed
RemovedMiddleOfThree ==
    \E r \in RunIds :
        /\ runs[r].op = "removeWidget" /\ runs[r].mutated
        /\ runs[r].input.location.widgetIndex = 1
        /\ Len(CellAt(runs[r].before, runs[r].input.location).widgets) = 3
        /\ CellAt(runs[r].after, runs[r].input.location).widgets = <<WidgetA, WidgetC>>
        /\ runs[r].validation.beforeWidgetCount = 3
        /\ runs[r].validation.afterWidgetCount = 2

\* a map merged key by key: the keys given have the given values, the others
\* keep theirs
MergedByKey(new, old, given) ==
    IF ~given.present THEN new = old
    ELSE /\ new.present
         /\ DOMAIN new.map = DOMAIN old.map \cup DOMAIN given.map
         /\ \A k \in DOMAIN new.map :
                new.map[k] = IF k \in DOMAIN given.map THEN given.map[k] ELSE old.map[k]

\* C28: the page updateWidgetContent builds differs from the fetched page in
\* the addressed widget only, and that widget keeps its id, name and type;
\* its body.html is the html given, its styles and params are merged key by
\* key, and what is not given is as it was.
UpdateTouchesContentOnly ==
    \A r \in RunIds :
        (runs[r].op = "updateWidgetContent" /\ runs[r].mutated) =>
            LET loc == runs[r].input.location
                in == runs[r].input
                cell == CellAt(runs[r].before, loc)
                old == At(cell.widgets, loc.widgetIndex)
                new == At(CellAt(runs[r].after, loc).widgets, loc.widgetIndex)
            IN  /\ Resolves(runs[r].before, loc, TRUE)
                /\ new.id = old.id /\ new.name = old.name /\ new.type = old.type
                /\ new.body = (IF in.html.given THEN HtmlBody(in.html.value) ELSE old.body)
                /\ MergedByKey(new.styles, old.styles, in.styles)
                /\ MergedByKey(new.params, old.params, in.params)
                /\ runs[r].after =
                       WithCell(runs[r].before, loc,
                                [cell EXCEPT !.widgets[loc.widgetIndex + 1] = new])

\* a style overwritten and a parameter added beside the one the widget had
MergedBesideExisting ==
    \E r \in RunIds :
        /\ runs[r].op = "updateWidgetContent" /\ runs[r].mutated
        /\ LET w == At(CellAt(runs[r].after, runs[r].input.location).widgets,
                       runs[r].input.location.widgetIndex)
           IN  /\ w.styles.map = "color" :> Str("blue")
               /\ w.params.map = ("size" :> Str("1") @@ "align" :> Str("left"))
               /\ w.body = WidgetA.body

\* the failure request() returned, as the last response or its absence tells
RequestError(r) ==
    \/ runs[r].result = Failure("RATE_LIMIT_SAFETY", "N/A")
    \/ runs[r].response = NoResponse /\ runs[r].result = Failure("NETWORK_ERROR", "N/A")
    \/ /\ runs[r].response.status \notin {0, 200}
       /\ runs[r].result = parseError(runs[r].response)

PhasesInOrder ==
    \A r \in RunIds :
        runs[r].op \in UpdateOps =>
            /\ runs[r].mutated => runs[r].hasBefore
            /\ runs[r].validated => runs[r].mutated
            /\ runs[r].sent.PATCH > 0 =>
                   /\ runs[r].hasBefore /\ runs[r].mutated /\ runs[r].phase = "commit"
                   /\ runs[r].validated /\ runs[r].validation.isValid
            /\ runs[r].sent.POST = 0 /\ runs[r].sent.PATCH <= maxRetries + 1
            /\ Len(logger.records) > 0 =>
                   /\ Ended(r) /\ runs[r].result.success /\ runs[r].sent.PATCH > 0
                   /\ Len(logger.records) = 1

\* an update run that has ended with its write answered by success
Committed(r) == runs[r].op \in UpdateOps /\ Ended(r) /\ runs[r].result.success

\* the remote draft has every field of the object run r built
DraftIsFrom(rem, r) ==
    \A k \in DOMAIN runs[r].after : Get(rem.draft, k) = runs[r].after[k]

CommitReplaces ==
    \A r \in RunIds :
        (Patching(r) /\ runs[r].pc = "inflight" /\ runs'[r].pc = "done"
         /\ runs'[r].result.success) => DraftIsFrom(remote', r)

\* C34: of two update runs on one object, each commit answered by success
\* leaves the remote draft with every field of the object that run built from
\* its own snapshot, whatever the draft held by then; when runs have committed
\* the draft is the object of one of them, and the other's change is not in it.
LastCommitWins ==
    /\ [][CommitReplaces]_vars
    /\ [](\A r \in RunIds : Committed(r) =>
              \E q \in RunIds : Committed(q) /\ DraftIsFrom(remote, q))

\* both runs fetched before either committed, both committed, and the field
\* the first changed is again as fetched
LostUpdate ==
    /\ Committed(1) /\ Committed(2)
    /\ runs[1].before = PageOne /\ runs[2].before = PageOne
    /\ DraftIsFrom(remote, 2)
    /\ \E k \in DOMAIN PageOne :
           /\ runs[1].after[k] # PageOne[k]
           /\ remote.draft[k] = PageOne[k]

\* C39: in the page addWidget has built, the addressed cell has the widgets
\* it had, each at its index, and the new widget behind them at the index the
\* operation returns, which is the new length minus one; putting the cell back
\* gives the fetched page, so no section, row or cell was created; a run whose
\* address names no cell builds nothing.
AddAppendsAtTail ==
    \A r \in RunIds :
        runs[r].op = "addWidget" =>
            /\ runs[r].mutated =>
                  LET loc == runs[r].input.location
                      was == CellAt(runs[r].before, loc)
                      old == WidgetsOf(was)
                      new == CellAt(runs[r].after, loc)
                  IN  /\ Navigate(runs[r].before, loc) \in {"ok", "nowidgets"}
                      /\ new.hasWidgets /\ Len(new.widgets) = Len(old) + 1
                      /\ loc.widgetIndex = Len(new.widgets) - 1
                      /\ \A i \in 1..Len(old) : new.widgets[i] = old[i]
                      /\ At(new.widgets, loc.widgetIndex).name = runs[r].input.widgetName
                      /\ WithCell(runs[r].after, loc, was) = runs[r].before
            /\ (Ended(r) /\ runs[r].hasBefore /\ ~runs[r].mutated) =>
                  /\ ~Resolves(runs[r].before, runs[r].input.location, FALSE)
                  /\ Writes(r) = 0

\* a widget added to a cell that had no widget list: the list is created and
\* the widget is at index 0
AddedToCellWithoutList ==
    \E r \in RunIds :
        /\ runs[r].op = "addWidget" /\ runs[r].mutated
        /\ ~CellAt(runs[r].before, runs[r].input.location).hasWidgets
        /\ runs[r].input.location.widgetIndex = 0
        /\ Len(CellAt(runs[r].after, runs[r].input.location).widgets) = 1

EndedRuns == {r \in RunIds : runs[r].op \in PipelineOps /\ Ended(r)}

\* the records emitted so far stay as they are
RecordsKept ==
    /\ Len(logger'.records) >= Len(logger.records)
    /\ \A i \in 1..Len(logger.records) : logger'.records[i] = logger.records[i]

\* C29: there is exactly one record for each run that has ended, whether it
\* succeeded or failed, and no step changes or drops a record already emitted.
OneRecordPerEndedRun ==
    /\ [](Len(logger.records) = Cardinality(EndedRuns))
    /\ [][RecordsKept]_vars

\* the operation id each run was given when it started
IssuedIds ==
    [r \in {x \in RunIds : runs[x].op # "none"} |-> runs[r].opId]

\* a step hands out ids above the counter it found, up to the counter it leaves
IdsHandedOutAbove ==
    /\ logger'.operationId >= logger.operationId
    /\ \A r \in RunIds :
          runs'[r].opId # runs[r].opId =>
              (runs'[r].opId > logger.operationId /\ runs'[r].opId <= logger'.operationId)
    /\ \A i \in (Len(logger.records) + 1)..Len(logger'.records) :
          /\ logger'.records[i].operationId > logger.operationId
          /\ logger'.records[i].operationId <= logger'.operationId

\* no two runs and no two records share an id, and the ids of the records
\* increase in the order of emission
IdsNeverRepeat ==
    /\ \A r, o \in DOMAIN IssuedIds : r # o => IssuedIds[r] # IssuedIds[o]
    /\ \A r \in DOMAIN IssuedIds, i \in 1..Len(logger.records) :
          IssuedIds[r] # logger.records[i].operationId
    /\ \A i, j \in 1..Len(logger.records) :
          i < j => logger.records[i].operationId < logger.records[j].operationId

\* C30: every value getNextOperationId returns is greater than every value
\* it returned before, whichever run calls it: the counter never goes back,
\* an id a step hands out is above the counter before the step, no two runs
\* and no two records share an id, and the ids of the records increase in the
\* order of emission.
OperationIdsIncrease ==
    /\ []IdsNeverRepeat
    /\ [][IdsHandedOutAbove]_vars

\* the run that started second was recorded first
RecordedOutOfStartOrder ==
    /\ runs[1].opId = 1 /\ runs[2].opId = 2
    /\ runs[1].op # runs[2].op
    /\ Len(logger.records) = 2
    /\ logger.records[1].operation = runs[2].op /\ logger.records[1].operationId = 3
    /\ logger.records[2].operation = runs[1].op /\ logger.records[2].operationId = 4

(***************************************************************************)
(* Properties of the request executor.                                     *)
(***************************************************************************)
\* a header that carries a value
Reports(h) == h.present /\ h.text # <<>>

\* the burst counter an attempt made at time t finds after the lazy reset
BurstSeenAt(t) ==
    IF t - rateLimiter.lastBurstReset >= burstWindowMs
    THEN burstLimit ELSE rateLimiter.burstRemaining

\* C11: whatever the interleaving of the callers, a step that sends an attempt
\* is the step that admitted it: it found both counters above their
\* thresholds, left each one lower by exactly one, and no other caller moved.
AdmissionIsAtomic ==
    [][\A r \in RunIds :
          Attempts(r)' # Attempts(r) =>
              /\ Attempts(r)' = Attempts(r) + 1
              /\ BurstSeenAt(now') > (burstLimit * SafetyMarginNum) \div SafetyMarginDen
              /\ rateLimiter.dailyRemaining > (dailyLimit * SafetyMarginNum) \div SafetyMarginDen
              /\ rateLimiter'.burstRemaining = BurstSeenAt(now') - 1
              /\ rateLimiter'.dailyRemaining = rateLimiter.dailyRemaining - 1
              /\ \A o \in RunIds \ {r} : runs'[o] = runs[o]]_vars

\* while one caller's attempt is in flight, the retry of the other, which was
\* suspended in its sleep, has been refused at the threshold
RefusedWhileOtherInFlight ==
    \E r, o \in RunIds :
        /\ r # o
        /\ runs[r].pc = "inflight" /\ runs[r].attempt >= 1
        /\ runs[o].result.status = "RATE_LIMIT_SAFETY" /\ runs[o].attempt >= 1
        /\ rateLimiter.burstRemaining = (burstLimit * SafetyMarginNum) \div SafetyMarginDen

\* the run's request ended in a failure of a retryable kind
RateLimitedResult(r) ==
    /\ ~runs[r].result.success
    /\ runs[r].response.status = 429
    /\ runs[r].result.message = "Rate limit exceeded"
NetworkErrorResult(r) ==
    ~runs[r].result.success /\ runs[r].result.status = "NETWORK_ERROR"

\* C12: a request is sent at most maxRetries + 1 times, 429 responses and
\* network failures counted together by one attempt number that starts at 0
\* and grows by one per retry; and when every fetch settles and every sleep
\* ends, a request that was started returns a result.
RequestIsBounded ==
    /\ [](\A r \in RunIds :
             /\ runs[r].attempt \in 0..maxRetries
             /\ Attempts(r) <= maxRetries + 1
             /\ runs[r].pc \in {"inflight", "sleeping"} => Attempts(r) = runs[r].attempt + 1)
    /\ (runs[1].pc # "idle") ~> (runs[1].pc = "done" /\ runs[1].result # NoResult)

\* five attempts were sent and the last one was rejected for rate limiting
FifthAttemptRejected ==
    /\ runs[1].pc = "done" /\ Attempts(1) = maxRetries + 1
    /\ runs[1].attempt = maxRetries /\ RateLimitedResult(1)

\* C13: when the retries are used up the failure returned is that of the last
\* attempt: the rate limit failure built from the 429 response, or
\* NETWORK_ERROR when fetch threw; the two never coincide.
ExhaustionKeepsClass ==
    \A r \in RunIds :
        (Ended(r) /\ runs[r].attempt = maxRetries /\ ~runs[r].result.success
                  /\ runs[r].result.status # "RATE_LIMIT_SAFETY") =>
            /\ runs[r].response.status = 429 =>
                  /\ runs[r].result.message = "Rate limit exceeded"
                  /\ runs[r].result.status \in {"Too Many Requests", runs[r].response.error.status}
                  /\ runs[r].result.status # "NETWORK_ERROR"
            /\ runs[r].response = NoResponse =>
                  /\ runs[r].result.status = "NETWORK_ERROR"
                  /\ runs[r].result.message # "Rate limit exceeded"

\* retries used up on a 429 whose body has its own status text
ExhaustedByRateLimit ==
    /\ Ended(1) /\ runs[1].attempt = maxRetries
    /\ runs[1].response.status = 429 /\ runs[1].response.error.status = "error"
    /\ runs[1].result.status = "error" /\ runs[1].result.message = "Rate limit exceeded"

\* C14: a 429 or a network failure is returned to the caller of request only
\* from attempt number maxRetries; a failure of another class is returned
\* from the attempt that met it, whatever its number.
TransientSurfacesLast ==
    \A r \in RunIds :
        /\ (Ended(r) /\ (RateLimitedResult(r) \/ NetworkErrorResult(r)))
               => (runs[r].attempt = maxRetries /\ Attempts(r) = maxRetries + 1)
        /\ (runs[r].response.status \notin {0, 200, 429})
               => (Ended(r) /\ ~runs[r].result.success
                   /\ Attempts(r) = runs[r].attempt + 1)

\* a 404 met on the third attempt, after two transient failures
NotFoundOnThirdAttempt ==
    /\ Ended(1) /\ runs[1].response.status = 404
    /\ runs[1].attempt = 2 /\ Attempts(1) = 3

\* C15: the step that receives a failure status other than 429 ends the
\* request: it returns a failure, starts no sleep, sends nothing more and
\* leaves the attempt number as it was.
OtherFailureEndsRequest ==
    [][\A r \in RunIds :
          (runs[r].pc = "inflight" /\ runs'[r].response.status \notin {0, 200, 429}) =>
              /\ runs'[r].pc = "done" /\ ~runs'[r].result.success
              /\ runs'[r].result = parseError(runs'[r].response)
              /\ runs'[r].attempt = runs[r].attempt
              /\ Attempts(r)' = Attempts(r)
              /\ runs'[r].wakeAt = runs[r].wakeAt]_vars

\* a 500 on the second attempt has ended the request
ServerErrorEnded ==
    /\ Ended(1) /\ runs[1].response.status = 500 /\ ~runs[1].result.success
    /\ runs[1].attempt = 1 /\ Attempts(1) = 2

\* C16: after a 429 that carries a Retry-After header the run sleeps for the
\* delay the header gives.
RetryAfterRespected ==
    \A r \in RunIds :
        (runs[r].pc = "sleeping" /\ runs[r].response.status = 429
                                 /\ Reports(runs[r].response.retryAfter)) =>
            runs[r].delay = 500

\* a failure returned for a response of the service
Surfaced(r) ==
    /\ Ended(r) /\ ~runs[r].result.success
    /\ runs[r].response.status \notin {0, 200}
    /\ runs[r].result.status # "RATE_LIMIT_SAFETY"

\* C31: a failure returned for a response of the service carries the
\* correlationId of the response's error envelope, and N/A only when the
\* envelope has none; a failure without a response carries N/A.
CorrelationIdPreserved ==
    \A r \in RunIds :
        /\ Surfaced(r) =>
               runs[r].result.correlationId =
                   (IF runs[r].response.error.correlationId # ""
                    THEN runs[r].response.error.correlationId ELSE "N/A")
        /\ (Ended(r) /\ runs[r].result.status = "NETWORK_ERROR") =>
               runs[r].result.correlationId = "N/A"

\* the status codes of the failures the client builds itself
LocalStatuses ==
    {"RATE_LIMIT_SAFETY", "NETWORK_ERROR", "VALIDATION_FAILED", "UPDATE_FAILED",
     "ADD_WIDGET_FAILED", "REMOVE_WIDGET_FAILED"} \cup NotFoundStatuses

Retries(r) == runs[r].pc = "sleeping" /\ runs'[r].pc # "sleeping"

RetryAdmission ==
    \A r \in RunIds :
        Retries(r) =>
            LET chk == canMakeRequest(rateLimiter, now')
                method == runs[r].req.method
            IN  /\ runs[r].attempt < maxRetries
                /\ chk.ok =>
                       /\ runs'[r].pc = "inflight"
                       /\ runs'[r].attempt = runs[r].attempt + 1
                       /\ runs'[r].sent[method] = runs[r].sent[method] + 1
                       /\ rateLimiter' = recordRequest(rateLimiter, now')
                /\ ~chk.ok =>
                       /\ runs'[r].pc = "done"
                       /\ runs'[r].result = Failure("RATE_LIMIT_SAFETY", "N/A")
                       /\ runs'[r].sent = runs[r].sent
                       /\ rateLimiter' = chk.limiter

\* C35: each retry goes through canMakeRequest again: an admitted retry is
\* recorded and sent as the next attempt, a refused one ends the run with
\* RATE_LIMIT_SAFETY, unsent and unrecorded, after fewer than maxRetries
\* retries.
RetryIsAdmittedAgain ==
    /\ [][RetryAdmission]_vars
    /\ [](\A r \in RunIds :
              (runs[r].result.status = "RATE_LIMIT_SAFETY" /\ runs[r].attempt > 0)
                  => runs[r].sent[runs[r].req.method] - 1 < maxRetries)

\* the 429 answer to the first attempt reported a burst count at the
\* threshold, and the retry, inside the same burst window, was refused
RefusedAfterRateLimitAnswer ==
    \E r \in RunIds :
        /\ runs[r].pc = "done" /\ runs[r].result = Failure("RATE_LIMIT_SAFETY", "N/A")
        /\ runs[r].response.status = 429 /\ Reports(runs[r].response.burst)
        /\ rateLimiter.burstRemaining <= SafeThreshold(burstLimit)
        /\ now - rateLimiter.lastBurstReset < burstWindowMs
        /\ runs[r].attempt = 1 /\ Attempts(r) = 1

\* a step in which run r sends an attempt, and one in which its fetch settles
Sends(r) == runs[r].pc # "inflight" /\ runs'[r].pc = "inflight"
Settles(r) == runs[r].pc = "inflight" /\ runs'[r].pc # "inflight"

\* a counter after a response whose header h was read
Observed(n, h) == IF Reports(h) THEN ParseInt(h.text) ELSE n

AttemptConsumes ==
    \A r \in RunIds :
        /\ Sends(r) =>
               /\ Attempts(r)' = Attempts(r) + 1
               /\ rateLimiter'.dailyRemaining = Decrement(rateLimiter.dailyRemaining)
               /\ rateLimiter'.burstRemaining = Decrement(BurstSeenAt(now'))
        /\ Settles(r) =>
               /\ Attempts(r)' = Attempts(r)
               /\ rateLimiter'.dailyRemaining =
                      Observed(rateLimiter.dailyRemaining, runs'[r].response.daily)
               /\ rateLimiter'.burstRemaining =
                      Observed(rateLimiter.burstRemaining, runs'[r].response.burst)

\* C36: the step that sends an attempt, first try or retry, lowers both
\* counters by one, so the counters are already lowered while the fetch is
\* pending; the step in which the fetch settles changes a counter only to the
\* count a header of the response reports; no other step changes the daily
\* counter.
EachAttemptConsumesOne ==
    [][/\ AttemptConsumes
       /\ (\A r \in RunIds : ~Sends(r) /\ ~Settles(r))
              => rateLimiter'.dailyRemaining = rateLimiter.dailyRemaining]_vars

\* the third attempt of the first request is pending, no header was seen, and
\* three units of each counter are gone
ThreeAttemptsThreeUnits ==
    /\ runs[1].pc = "inflight" /\ runs[1].attempt = 2 /\ calls.record = 0
    /\ rateLimiter.dailyRemaining = dailyLimit - 3
    /\ rateLimiter.burstRemaining = burstLimit - 3

DailyExhausted == rateLimiter.dailyRemaining <= SafeThreshold(dailyLimit)

\* no request is waiting for its answer
Quiet == \A r \in RunIds : runs[r].pc # "inflight"

\* what a step does once the daily counter is at its threshold and nothing is
\* pending: the counter stays, nothing is sent, and a request that is started
\* or retried ends refused
DailyRefusal ==
    (DailyExhausted /\ Quiet) =>
        /\ rateLimiter'.dailyRemaining = rateLimiter.dailyRemaining
        /\ Quiet'
        /\ \A r \in RunIds :
              /\ (runs[r].pc \in {"idle", "sleeping"} /\ runs'[r].pc # runs[r].pc) =>
                     \/ runs'[r].pc = "download"
                     \/ /\ runs'[r].pc = "done" /\ Attempts(r)' = Attempts(r)
                        /\ runs'[r].result = Failure("RATE_LIMIT_SAFETY", "N/A")
              /\ (runs[r].pc = "download" /\ runs'[r].pc # "download") =>
                     /\ runs'[r].pc = "done" /\ Attempts(r)' = 0
                     /\ runs'[r].result.status \in {"RATE_LIMIT_SAFETY", "FILE_FETCH_ERROR"}

BudgetBound ==
    /\ 0 <= rateLimiter.burstRemaining /\ rateLimiter.burstRemaining <= burstLimit
    /\ 0 <= rateLimiter.dailyRemaining /\ rateLimiter.dailyRemaining <= dailyLimit

\* a recordRequest that found the burst counter at zero and left it there
BudgetClampedAtZero ==
    /\ lastCall.op = "recordRequest"
    /\ lastCall.burstBefore = 0 /\ ~lastCall.elapsed
    /\ rateLimiter.burstRemaining = 0

\* C7: the counters stay within their capacities after every operation of the
\* budget, updateFromHeaders included.
BudgetBoundAfterObserve ==
    /\ rateLimiter.burstRemaining \in 0..burstLimit
    /\ rateLimiter.dailyRemaining \in 0..dailyLimit

\* C8: canMakeRequest returns false exactly when, after the lazy reset, a
\* counter is at or below floor(limit * safetyMargin).
RefusesExactlyAtThreshold ==
    lastCall.op = "canMakeRequest" =>
        (lastCall.ok = FALSE <=>
            \/ rateLimiter.burstRemaining <= (burstLimit * SafetyMarginNum) \div SafetyMarginDen
            \/ rateLimiter.dailyRemaining <= (dailyLimit * SafetyMarginNum) \div SafetyMarginDen)

\* the example of the claim: 5 of 100 remaining, margin 0.1, is refused
RefusedAtFive ==
    /\ lastCall.op = "canMakeRequest" /\ ~lastCall.ok
    /\ rateLimiter.burstRemaining = 5
    /\ rateLimiter.dailyRemaining > SafeThreshold(dailyLimit)

\* C10: when the window has elapsed, canMakeRequest compares a burst counter
\* that equals burstLimit, whatever it held before: the call leaves the
\* counter at burstLimit and its answer depends on the daily counter alone.
WindowResetBeforeCheck ==
    [][(/\ now - rateLimiter.lastBurstReset >= burstWindowMs
        /\ lastCall'.op = "canMakeRequest")
       => (/\ rateLimiter'.burstRemaining = burstLimit
           /\ rateLimiter'.lastBurstReset = now
           /\ lastCall'.ok = (rateLimiter'.dailyRemaining > SafeThreshold(dailyLimit)))]_vars

\* a reset that replaced a value written by updateFromHeaders
ResetOverwroteObserved ==
    /\ lastCall.op = "canMakeRequest" /\ lastCall.elapsed
    /\ lastCall.burstBefore = 11 /\ lastCall.ok
    /\ rateLimiter.burstRemaining = burstLimit

\* the count a header reports, if it reports one
Reported(h) ==
    CASE h.text = <<"3">> -> 3
      [] h.text = <<"1","1">> -> 11
      [] h.text = <<"1","5","0">> -> 150
      [] h.text = <<"5","0","0","0","1">> -> 50001

JitterBelowBase ==
    lastCall.op = "calculateBackoff" =>
        /\ lastCall.jitter < lastCall.base
        /\ lastCall.delay < ((2 ^ lastCall.attempt) + 1) * lastCall.base

(***************************************************************************)
(* Properties of validatePageStructure.                                    *)
(***************************************************************************)
\* the section names of a snapshot
NamesOf(page) == IF HasLayout(page) THEN DOMAIN Layout(page) ELSE {}

\* C24: when a section name of the before snapshot is absent from the after
\* snapshot, the validation is not valid and its errors name each such section.
RemovedSectionIsError ==
    lastCall.op = "validatePageStructure" =>
        LET missing == NamesOf(lastCall.beforePage) \ NamesOf(lastCall.afterPage)
            v == lastCall.validation
        IN  missing # {} =>
                /\ ~v.isValid
                /\ v.errors # {}
                /\ \A n \in missing :
                       [kind |-> "section removed", section |-> n] \in v.errors

\* two sections removed and one added: the section count alone changes by one
TwoRemovedOneAdded ==
    /\ lastCall.op = "validatePageStructure"
    /\ NamesOf(lastCall.beforePage) = {"main", "side"}
    /\ NamesOf(lastCall.afterPage) = {"footer"}
    /\ Cardinality(lastCall.validation.errors) = 3

\* C25: when the after snapshot has every section of the before snapshot and
\* one or more besides, each added section is a warning, there is no error
\* and the validation is valid.
AddedSectionIsWarningOnly ==
    lastCall.op = "validatePageStructure" =>
        LET b == NamesOf(lastCall.beforePage)
            a == NamesOf(lastCall.afterPage)
            v == lastCall.validation
        IN  (b \subseteq a /\ a # b) =>
                /\ \A n \in a \ b :
                       [kind |-> "section added", section |-> n] \in v.warnings
                /\ v.errors = {}
                /\ v.isValid

(***************************************************************************)
(* Properties of the validation inside the widget operations.              *)
(***************************************************************************)
\* C38: in updateWidgetContent, addWidget and removeWidget the object built
\* has the section names of the fetched object, so the validation of a run
\* has no error and is valid, and no run ends with VALIDATION_FAILED.
ValidationNeverRejects ==
    \A r \in RunIds :
        runs[r].op \in WidgetOps =>
            /\ runs[r].result.status # "VALIDATION_FAILED"
            /\ runs[r].validated =>
                   /\ NamesOf(runs[r].before) = NamesOf(runs[r].after)
                   /\ runs[r].validation = validatePageStructure(runs[r].before, runs[r].after)
                   /\ runs[r].validation.errors = {}
                   /\ runs[r].validation.isValid

\* a removal was validated: the widget count fell, which is a warning, and
\* both sections are still there
ValidatedWithWarning ==
    \E r \in RunIds :
        /\ runs[r].op = "removeWidget" /\ runs[r].validated
        /\ runs[r].validation.afterWidgetCount = runs[r].validation.beforeWidgetCount - 1
        /\ runs[r].validation.warnings # {}
        /\ NamesOf(runs[r].after) = {"main", "side"}

====
